---------------------------- MODULE Spec2Model ----------------------------
(***************************************************************************)
(* Model of the Kaaryaa IDP identity engine (src/main.py): the router      *)
(* extract_identity, its classifier, and the per-type processors           *)
(* process_aadhaar, process_pan, process_cheque, process_form16 and        *)
(* process_itrv, together with the text helpers they call.                 *)
(*                                                                         *)
(* Text is a sequence of one-character strings, so that substring tests,   *)
(* case conversion and the regular expressions of the source are computed  *)
(* character by character.  Python's None is the value None below, which   *)
(* no text equals (its only element is not a single character).            *)
(***************************************************************************)
EXTENDS Integers, Sequences, FiniteSets, TLC

\* ------------------------------------------------------------------------
\* Python values
\* ------------------------------------------------------------------------

\* Python's None.
None == <<"<None>">>

\* dict.get(key) of a key the dict does not hold.
Missing == <<"<Missing>">>

\* Python truthiness of an Optional[str]: None and "" are falsy.
Truthy(v) == v # None /\ v # <<>>

\* str(v) of a text or None.
Str(v) == IF v = None THEN <<"N", "o", "n", "e">> ELSE v

\* A Python expression is evaluated once where it stands, and its value is
\* what a name or a parameter then holds: F of the value of v.
With(v, F(_)) == CHOOSE r \in {F(x) : x \in {v}} : TRUE

\* min and max of a non-empty set of integers.
Min(set) == With(set, LAMBDA S : CHOOSE x \in S : \A y \in S : x <= y)

Max(set) == With(set, LAMBDA S : CHOOSE x \in S : \A y \in S : x >= y)

\* ------------------------------------------------------------------------
\* Characters and text primitives (str methods)
\* ------------------------------------------------------------------------

Digits == {"0", "1", "2", "3", "4", "5", "6", "7", "8", "9"}

LowerChars == <<"a", "b", "c", "d", "e", "f", "g", "h", "i", "j", "k", "l", "m",
                "n", "o", "p", "q", "r", "s", "t", "u", "v", "w", "x", "y", "z">>

UpperChars == <<"A", "B", "C", "D", "E", "F", "G", "H", "I", "J", "K", "L", "M",
                "N", "O", "P", "Q", "R", "S", "T", "U", "V", "W", "X", "Y", "Z">>

LowerSet == {LowerChars[k] : k \in 1..26}

UpperSet == {UpperChars[k] : k \in 1..26}

\* The class \s of the re module (ASCII whitespace the inputs can hold).
SpaceSet == {" ", "\t", "\n", "\r", "\f"}

\* The class \w.
WordSet == LowerSet \cup UpperSet \cup Digits \cup {"_"}

UpperChar(c) ==
    IF c \in LowerSet THEN UpperChars[CHOOSE k \in 1..26 : LowerChars[k] = c] ELSE c

LowerChar(c) ==
    IF c \in UpperSet THEN LowerChars[CHOOSE k \in 1..26 : UpperChars[k] = c] ELSE c

\* str.upper()
Upper(text) == With(text, LAMBDA s : [k \in 1..Len(s) |-> UpperChar(s[k])])

\* str.lower()
Lower(text) == With(text, LAMBDA s : [k \in 1..Len(s) |-> LowerChar(s[k])])

\* s[i:i+len(t)] == t
StartsAt(t, s, i) ==
    /\ i + Len(t) - 1 <= Len(s)
    /\ \A k \in 1..Len(t) : s[i + k - 1] = t[k]

\* t in s
Contains(text, part) ==
    \E s \in {text}, t \in {part} : \E i \in 1..(Len(s) - Len(t) + 1) : StartsAt(t, s, i)

\* str.strip()
Strip(text) ==
    With(text, LAMBDA s :
        With({k \in 1..Len(s) : s[k] \notin SpaceSet}, LAMBDA keep :
            IF keep = {} THEN <<>> ELSE SubSeq(s, Min(keep), Max(keep))))

\* str.replace(" ", "")
RemoveSpaces(s) == SelectSeq(s, LAMBDA c : c # " ")

\* str.isupper(): some cased character, and no lower-case one.
IsUpper(text) ==
    \E s \in {text} :
        /\ \E k \in 1..Len(s) : s[k] \in UpperSet
        /\ \A k \in 1..Len(s) : s[k] \notin LowerSet

\* Concatenation of a sequence of texts.
RECURSIVE ConcatUpTo(_, _)
ConcatUpTo(ss, n) == IF n = 0 THEN <<>> ELSE ConcatUpTo(ss, n - 1) \o ss[n]

Concat(ss) == With(ss, LAMBDA v : ConcatUpTo(v, Len(v)))

\* ------------------------------------------------------------------------
\* The re module: a backtracking matcher over pattern terms
\* ------------------------------------------------------------------------
\* A pattern is a sequence of terms.  Terms:
\*   Lit(s)            the characters of s
\*   Set(S)            one character of S              [...]
\*   NotSet(S)         one character not in S          [^...]
\*   AnyChar           one character                   [\s\S]
\*   Alt(ps)           the first pattern of ps that lets the rest match
\*   Rep(p, m, n)      p repeated m..n times, greedy   p{m,n}  (n = Inf: no limit)
\*   Lazy(p, m, n)     p repeated m..n times, lazy     p{m,n}?
\*   Grp(k, p)         capture group k
\*   Bol, Eol          ^ and $
\*   WordB             \b
\*   NotBefore(S)      (?<!S)
\*   NotAfter(S)       (?!S)

Inf == 0 - 1

Lit(s) == [t |-> "lit", s |-> s]

Set(cs) == [t |-> "set", s |-> cs, neg |-> FALSE]

NotSet(cs) == [t |-> "set", s |-> cs, neg |-> TRUE]

AnyChar == [t |-> "set", s |-> {}, neg |-> TRUE]

Alt(ps) == [t |-> "alt", alts |-> ps]

Rep(p, m, n) == [t |-> "rep", p |-> p, min |-> m, max |-> n, lazy |-> FALSE]

Lazy(p, m, n) == [t |-> "rep", p |-> p, min |-> m, max |-> n, lazy |-> TRUE]

Opt(p) == Rep(p, 0, 1)

Grp(k, p) == [t |-> "grp", n |-> k, p |-> p]

Bol == [t |-> "bol"]

Eol == [t |-> "eol"]

WordB == [t |-> "wb"]

NotBefore(cs) == [t |-> "nlb", s |-> cs]

NotAfter(cs) == [t |-> "nla", s |-> cs]

\* The shorthands \d, \s, \d{m,n}, \s*, \s+
D == Set(Digits)

Sp == Set(SpaceSet)

Dn(m, n) == Rep(<<D>>, m, n)

Ws0 == Rep(<<Sp>>, 0, Inf)

Ws1 == Rep(<<Sp>>, 1, Inf)

\* Capture groups not (yet) matched; a span is <<first, last + 1>>.
NoCaps == <<<<0, 0>>, <<0, 0>>>>

NoMatch == [ok |-> FALSE, start |-> 0, end |-> 0, caps |-> NoCaps]

\* Whether character c is matched by the set term h, under re.IGNORECASE when ic.
InSet(c, h, ic) ==
    LET in == IF ic THEN LowerChar(c) \in h.s \/ UpperChar(c) \in h.s ELSE c \in h.s
    IN IF h.neg THEN ~in ELSE in

\* Whether literal t stands at position i of s.
LitAt(t, s, i, ic) ==
    IF ic THEN /\ i + Len(t) - 1 <= Len(s)
               /\ \A k \in 1..Len(t) : LowerChar(s[i + k - 1]) = LowerChar(t[k])
          ELSE StartsAt(t, s, i)

IsWordAt(s, i) == i >= 1 /\ i <= Len(s) /\ s[i] \in WordSet

\* Of the tries <<n, match>>, the match of the least (least) or of the
\* greatest n whose try matched.
Pick(tries, least) ==
    With({t \in tries : t[2].ok}, LAMBDA fits :
        IF fits = {} THEN NoMatch
        ELSE (CHOOSE t \in fits :
                 \A u \in fits : IF least THEN t[1] <= u[1] ELSE t[1] >= u[1])[2])

\* Match pattern p against s from position i: the first match in backtracking
\* order, as the re module finds it.
RECURSIVE Match(_, _, _, _, _, _)
RECURSIVE MatchTerm(_, _, _, _, _, _)
RECURSIVE MatchAlts(_, _, _, _, _, _, _)
Match(pattern, text, at, start, groups, ignorecase) ==
    CHOOSE m \in {MatchTerm(p, s, i, st, caps, ic) :
                     p \in {pattern}, s \in {text}, i \in {at}, st \in {start},
                     caps \in {groups}, ic \in {ignorecase}} : TRUE

\* The first term of p at position i, then the rest.
MatchTerm(p, s, i, st, caps, ic) ==
    IF Len(p) = 0 THEN [ok |-> TRUE, start |-> st, end |-> i, caps |-> caps]
    ELSE
    LET h == Head(p)
        r == Tail(p)
    IN CASE h.t = "lit" ->
              IF LitAt(h.s, s, i, ic) THEN Match(r, s, i + Len(h.s), st, caps, ic)
              ELSE NoMatch
         [] h.t = "set" ->
              IF i <= Len(s) /\ InSet(s[i], h, ic) THEN Match(r, s, i + 1, st, caps, ic)
              ELSE NoMatch
         [] h.t = "alt" -> MatchAlts(h.alts, r, s, i, st, caps, ic)
         [] h.t = "rep" /\ Len(h.p) = 1 /\ h.p[1].t = "set" ->
              \* A repeated character class: run characters of the class stand
              \* at i, and the counts n up to run are tried from the largest
              \* (greedy) or from the smallest (lazy).
              LET cap == IF h.max = Inf THEN Len(s) - i + 1
                         ELSE IF h.max < Len(s) - i + 1 THEN h.max ELSE Len(s) - i + 1
                  run == Min({k \in 0..cap : k = cap \/ ~InSet(s[i + k], h.p[1], ic)})
              IN Pick({<<n, Match(r, s, i + n, st, caps, ic)>> : n \in h.min..run}, h.lazy)
         [] h.t = "rep" ->
              LET less == [h EXCEPT !.min = IF h.min > 0 THEN h.min - 1 ELSE 0,
                                    !.max = IF h.max = Inf THEN Inf ELSE h.max - 1]
                  more == Match(h.p \o <<less>> \o r, s, i, st, caps, ic)
                  stop == Match(r, s, i, st, caps, ic)
              IN IF h.max = 0 THEN stop
                 ELSE IF h.min > 0 THEN more
                 ELSE IF h.lazy THEN With(stop, LAMBDA m : IF m.ok THEN m ELSE more)
                 ELSE With(more, LAMBDA m : IF m.ok THEN m ELSE stop)
         [] h.t = "grp" ->
              Match(h.p \o <<[t |-> "end", n |-> h.n, from |-> i]>> \o r, s, i, st, caps, ic)
         [] h.t = "end" ->
              Match(r, s, i, st, [caps EXCEPT ![h.n] = <<h.from, i>>], ic)
         [] h.t = "bol" -> IF i = 1 THEN Match(r, s, i, st, caps, ic) ELSE NoMatch
         [] h.t = "eol" ->
              IF i = Len(s) + 1 \/ (i = Len(s) /\ s[i] = "\n")
              THEN Match(r, s, i, st, caps, ic) ELSE NoMatch
         [] h.t = "wb" ->
              IF IsWordAt(s, i - 1) # IsWordAt(s, i)
              THEN Match(r, s, i, st, caps, ic) ELSE NoMatch
         [] h.t = "nlb" ->
              IF i > 1 /\ s[i - 1] \in h.s THEN NoMatch
              ELSE Match(r, s, i, st, caps, ic)
         [] h.t = "nla" ->
              IF i <= Len(s) /\ s[i] \in h.s THEN NoMatch
              ELSE Match(r, s, i, st, caps, ic)

MatchAlts(alts, r, s, i, st, caps, ic) ==
    IF Len(alts) = 0 THEN NoMatch
    ELSE With(Match(Head(alts) \o r, s, i, st, caps, ic), LAMBDA first :
             IF first.ok THEN first ELSE MatchAlts(Tail(alts), r, s, i, st, caps, ic))

\* re.match(p, s)
ReMatch(p, s, ic) == Match(p, s, 1, 1, NoCaps, ic)

\* The tries <<i, match>> of p at every position i of s.
Tries(p, s, ic) == {<<i, Match(p, s, i, i, NoCaps, ic)>> : i \in 1..(Len(s) + 1)}

\* The leftmost match at or after from.
SearchFrom(tries, from) == Pick({t \in tries : t[1] >= from}, TRUE)

\* re.search(p, s)
ReSearch(p, text, ic) == With(text, LAMBDA s : SearchFrom(Tries(p, s, ic), 1))

\* match.group(0) and match.group(k)
Group0(match, s) == With(match, LAMBDA m : SubSeq(s, m.start, m.end - 1))

Group(match, s, k) == With(match, LAMBDA m : SubSeq(s, m.caps[k][1], m.caps[k][2] - 1))

\* re.findall(p, s) of a pattern without capture groups: the non-overlapping
\* matches, left to right.
RECURSIVE FindAllFrom(_, _, _)
FindAllFrom(tries, s, from) ==
    With(SearchFrom(tries, from), LAMBDA m :
        IF ~m.ok THEN <<>>
        ELSE <<Group0(m, s)>>
             \o FindAllFrom(tries, s, IF m.end > m.start THEN m.end ELSE m.end + 1))

ReFindAll(p, text, ic) ==
    With(text, LAMBDA s : With(Tries(p, s, ic), LAMBDA tries : FindAllFrom(tries, s, 1)))

\* re.sub(p, repl, s) of a pattern that matches no empty text.
RECURSIVE SubFrom(_, _, _, _)
SubFrom(tries, repl, s, from) ==
    With(SearchFrom(tries, from), LAMBDA m :
        IF ~m.ok \/ m.end = m.start THEN SubSeq(s, from, Len(s))
        ELSE SubSeq(s, from, m.start - 1) \o repl \o SubFrom(tries, repl, s, m.end))

ReSub(p, repl, text, ic) ==
    With(text, LAMBDA s : With(Tries(p, s, ic), LAMBDA tries : SubFrom(tries, repl, s, 1)))

\* ------------------------------------------------------------------------
\* General helpers
\* ------------------------------------------------------------------------

\* What a call yields when it ends in an uncaught exception (the re functions
\* raise TypeError on None, None.replace raises AttributeError).
Raised == <<"<raised>">>

\* r"\b(MALE|FEMALE|TRANSGENDER)\b"
GenderPattern ==
    <<WordB, Grp(1, <<Alt(<<<<Lit(<<"M","A","L","E">>)>>, <<Lit(<<"F","E","M","A","L","E">>)>>, <<Lit(<<"T","R","A","N","S","G","E","N","D","E","R">>)>>>>)>>),
      WordB>>

extract_gender_fallback(full_text) ==
    IF full_text = None THEN Raised
    ELSE With(ReSearch(GenderPattern, full_text, TRUE), LAMBDA match :
             IF match.ok THEN Upper(Group(match, full_text, 1)) ELSE None)

\* r"(?:Address|To|Address:|To:)\s*([\s\S]*?)(\d{6})"
AddressPattern ==
    <<Alt(<<<<Lit(<<"A","d","d","r","e","s","s">>)>>, <<Lit(<<"T","o">>)>>, <<Lit(<<"A","d","d","r","e","s","s",":">>)>>, <<Lit(<<"T","o",":">>)>>>>),
      Ws0, Grp(1, <<Lazy(<<AnyChar>>, 0, Inf)>>), Grp(2, <<Dn(6, 6)>>)>>

\* r"Print Date\s*[:\-]?\s*\d{2}/\d{2}/\d{4},?"
PrintDatePattern ==
    <<Lit(<<"P","r","i","n","t"," ","D","a","t","e">>), Ws0, Opt(<<Set({":", "-"})>>), Ws0,
      Dn(2, 2), Lit(<<"/">>), Dn(2, 2), Lit(<<"/">>), Dn(4, 4), Opt(<<Lit(<<",">>)>>)>>

\* r"^[:\-\s]+"
LeadingNoisePattern == <<Bol, Rep(<<Set({":", "-"} \cup SpaceSet)>>, 1, Inf)>>

\* re.sub(r'\s+', ' ', s)
CollapseSpaces(s) == ReSub(<<Ws1>>, <<" ">>, s, FALSE)

\* The try block catches the TypeError of a None text, so the result is None.
extract_address_fallback(full_text) ==
    IF full_text = None THEN None
    ELSE With(ReSearch(AddressPattern, full_text, TRUE), LAMBDA match :
             LET raw_addr == Strip(Group(match, full_text, 1))
                 pincode == Group(match, full_text, 2)
                 clean1 == ReSub(PrintDatePattern, <<>>, raw_addr, TRUE)
                 clean2 == ReSub(LeadingNoisePattern, <<>>, clean1, FALSE)
                 clean_addr == Strip(CollapseSpaces(clean2))
             IN IF match.ok THEN clean_addr \o <<","," ">> \o pincode ELSE None)

\* [line.content for page in result.pages for line in page.lines]
AllLines(result) == Concat(result.pages)

\* Python's all_lines[i-1] for the 0-based i = k - 1: index -1 is the last line.
LineBefore(all_lines, k) == all_lines[IF k = 1 THEN Len(all_lines) ELSE k - 1]

HasBirthMarker(line) == Contains(line, <<"D","O","B">>) \/ Contains(line, <<"Y","e","a","r"," ","o","f"," ","B","i","r","t","h">>)

\* The lines at which the loop of refine_name_using_anchor returns.
AnchorHits(all_lines, partial_name) ==
    {k \in 1..Len(all_lines) :
        /\ HasBirthMarker(all_lines[k])
        /\ Contains(Lower(Strip(LineBefore(all_lines, k))), Lower(partial_name))}

refine_name_using_anchor(result, partial_name) ==
    With(AllLines(result), LAMBDA all_lines :
        With(AnchorHits(all_lines, partial_name), LAMBDA hits :
            IF hits = {} THEN partial_name ELSE Strip(LineBefore(all_lines, Min(hits)))))

\* ------------------------------------------------------------------------
\* Cheque helpers
\* ------------------------------------------------------------------------

\* r"[A-Z]{4}0[A-Z0-9]{6}"
IfscPattern ==
    <<Rep(<<Set(UpperSet)>>, 4, 4), Lit(<<"0">>), Rep(<<Set(UpperSet \cup Digits)>>, 6, 6)>>

extract_ifsc(text) ==
    IF text = None THEN Raised
    ELSE With(ReSearch(IfscPattern, text, FALSE), LAMBDA match :
             IF match.ok THEN Group0(match, text) ELSE None)

\* r"(?:A/c|Account|Acc)\s*(?:No|Number)?\.?\s*[:\-]?\s*(\d{9,18})"
LabeledAccountPattern ==
    <<Alt(<<<<Lit(<<"A","/","c">>)>>, <<Lit(<<"A","c","c","o","u","n","t">>)>>, <<Lit(<<"A","c","c">>)>>>>), Ws0,
      Opt(<<Alt(<<<<Lit(<<"N","o">>)>>, <<Lit(<<"N","u","m","b","e","r">>)>>>>)>>), Opt(<<Lit(<<".">>)>>), Ws0,
      Opt(<<Set({":", "-"})>>), Ws0, Grp(1, <<Dn(9, 18)>>)>>

\* r"(?<!\d)\d{10,18}(?!\d)"
LongNumberPattern == <<NotBefore(Digits), Dn(10, 18), NotAfter(Digits)>>

\* The last of the longest texts (max keeps the first).
MaxByLenLast(list) ==
    With(list, LAMBDA texts :
        texts[CHOOSE x \in 1..Len(texts) :
                  /\ \A y \in 1..Len(texts) : Len(texts[y]) <= Len(texts[x])
                  /\ \A y \in (x + 1)..Len(texts) : Len(texts[y]) < Len(texts[x])])

\* max(texts, key=len): the first of the longest.
MaxByLen(list) ==
    With(list, LAMBDA texts :
        texts[CHOOSE x \in 1..Len(texts) :
                  /\ \A y \in 1..Len(texts) : Len(texts[y]) <= Len(texts[x])
                  /\ \A y \in 1..(x - 1) : Len(texts[y]) < Len(texts[x])])

extract_account_number(text) ==
    IF text = None THEN Raised
    ELSE With(ReSearch(LabeledAccountPattern, text, TRUE), LAMBDA match :
             With(ReFindAll(LongNumberPattern, text, FALSE), LAMBDA long_numbers :
                 IF match.ok THEN Group(match, text, 1)
                 ELSE IF Len(long_numbers) > 0 THEN MaxByLen(long_numbers) ELSE None))

\* ------------------------------------------------------------------------
\* Numbers: float(text) of a text of digits with at most one "." followed by
\* one or two digits, kept as its digits so that no amount overflows
\* ------------------------------------------------------------------------

DigitVal(c) == CHOOSE n \in 0..9 : <<"0", "1", "2", "3", "4", "5", "6", "7", "8", "9">>[n + 1] = c

\* The text without its leading zeros.
StripZeros(text) ==
    With(text, LAMBDA ds :
        With({k \in 1..Len(ds) : ds[k] # "0"}, LAMBDA nz :
            IF nz = {} THEN <<>> ELSE SubSeq(ds, Min(nz), Len(ds))))

\* float(val): ip the digits of the integer part, fp the hundredths.
Float(text) ==
    With(text, LAMBDA val :
        With({k \in 1..Len(val) : val[k] = "."}, LAMBDA dots :
            LET dot == CHOOSE k \in dots : TRUE
                frac == SubSeq(val, dot + 1, Len(val))
            IN IF dots = {} THEN [ip |-> StripZeros(val), fp |-> 0]
               ELSE [ip |-> StripZeros(SubSeq(val, 1, dot - 1)),
                     fp |-> IF Len(frac) = 0 THEN 0
                            ELSE IF Len(frac) = 1 THEN 10 * DigitVal(frac[1])
                            ELSE 10 * DigitVal(frac[1]) + DigitVal(frac[2])]))

\* a < b on two such numbers.
NumLess(x, y) ==
    \E a \in {x}, b \in {y} :
        \/ Len(a.ip) < Len(b.ip)
        \/ /\ Len(a.ip) = Len(b.ip)
           /\ \E k \in 1..Len(a.ip) :
                 /\ DigitVal(a.ip[k]) < DigitVal(b.ip[k])
                 /\ \A j \in 1..(k - 1) : a.ip[j] = b.ip[j]
        \/ a.ip = b.ip /\ a.fp < b.fp

\* ------------------------------------------------------------------------
\* Income processors
\* ------------------------------------------------------------------------

\* IdentityResponse(...) with the defaults of its fields.  confidence_score is
\* in hundredths (0.9 is 90).
IdentityResponse ==
    [document_type |-> None, id_number |-> None, full_name |-> None, gender |-> None,
     date_of_birth |-> None, address |-> None, ifsc_code |-> None, micr_code |-> None,
     bank_name |-> None, employer_name |-> None, assessment_year |-> None,
     gross_income |-> None, tax_paid |-> None, confidence_score |-> 0,
     validation_status |-> None, warnings |-> <<>>]

\* Step 1 of process_form16: the employer name, from the lines after the header.
HeaderLike(candidate) ==
    \/ Contains(candidate, <<"N","a","m","e"," ","a","n","d"," ","a","d","d","r","e","s","s">>)
    \/ Contains(candidate, <<"E","m","p","l","o","y","e","e">>)
    \/ Contains(candidate, <<"S","p","e","c","i","f","i","e","d"," ","s","e","n","i","o","r">>)

\* The lines that hold the header of the employer block.
EmployerHeads(lines) ==
    {k \in 1..Len(lines) :
        \/ Contains(lines[k], <<"N","a","m","e"," ","a","n","d"," ","a","d","d","r","e","s","s"," ","o","f"," ","t","h","e"," ","E","m","p","l","o","y","e","r">>)
        \/ Contains(lines[k], <<"N","a","m","e"," ","a","n","d"," ","a","d","d","r","e","s","s"," ","o","f"," ","t","h","e"," ","E","m","p","l","o","y","e","r","/","S","p","e","c","i","f","i","e","d"," ","B","a","n","k">>)}

\* range(1, 4) from header line i, left at the first offset past the last line:
\* the offsets whose line is not header-like.
EmployerOffsets(lines, i) ==
    {o \in 1..3 : i + o <= Len(lines) /\ ~HeaderLike(Strip(lines[i + o]))}

Form16Employer(all_lines) ==
    With(all_lines, LAMBDA lines :
      With(EmployerHeads(lines), LAMBDA heads :
        IF heads = {} THEN None
        ELSE With(Min(heads), LAMBDA i :
          With(EmployerOffsets(lines, i), LAMBDA offsets :
            IF offsets = {} THEN None
            ELSE With(Min(offsets), LAMBDA offset :
              With(Strip(lines[i + offset]), LAMBDA candidate :
                IF i + offset + 1 > Len(lines) THEN candidate
                ELSE With(Strip(lines[i + offset + 1]), LAMBDA next_l :
                  IF /\ IsUpper(next_l)
                     /\ (Contains(next_l, <<"P","R","I","V","A","T","E">>) \/ Contains(next_l, <<"L","I","M","I","T","E","D">>))
                  THEN candidate \o <<" ">> \o next_l
                  ELSE candidate)))))))

\* r"Assessment\s*Year\s*[:\-]?\s*(\d{4}-\d{2})"
AssessmentYearPattern ==
    <<Lit(<<"A","s","s","e","s","s","m","e","n","t">>), Ws0, Lit(<<"Y","e","a","r">>), Ws0, Opt(<<Set({":", "-"})>>), Ws0,
      Grp(1, <<Dn(4, 4), Lit(<<"-">>), Dn(2, 2)>>)>>

AssessmentYear(content) ==
    With(ReSearch(AssessmentYearPattern, content, TRUE), LAMBDA ay_match :
        IF ay_match.ok THEN Group(ay_match, content, 1) ELSE None)

target_row_keywords ==
    <<<<"t","a","x","a","b","l","e"," ","i","n","c","o","m","e">>, <<"g","r","o","s","s"," ","s","a","l","a","r","y">>, <<"n","e","t"," ","s","a","l","a","r","y">>, <<"s","a","l","a","r","y"," ","r","e","c","e","i","v","e","d">>,
      <<"t","o","t","a","l"," ","a","m","o","u","n","t"," ","o","f"," ","s","a","l","a","r","y">>, <<"a","m","o","u","n","t"," ","p","a","i","d">>, <<"a","m","o","u","n","t"," ","c","r","e","d","i","t","e","d">>>>

\* re.sub(r'\s+', ' ', cell.content or "").strip().lower()
CleanText(cell) ==
    Lower(Strip(CollapseSpaces(IF Truthy(cell.content) THEN cell.content ELSE <<>>)))

KeywordCell(cell) ==
    \E clean_text \in {CleanText(cell)} :
        \E k \in 1..Len(target_row_keywords) : Contains(clean_text, target_row_keywords[k])

\* The threshold of "if float(val) > 5000".
PlausibleAbove == Float(<<"5","0","0","0">>)

\* r"^\d+(\.\d{1,2})?$"
AmountPattern == <<Bol, Dn(1, Inf), Opt(<<Grp(1, <<Lit(<<".">>), Dn(1, 2)>>)>>), Eol>>

\* val = re.sub(r"[^\d\.]", "", c.content); re.match(...) and float(val) > 5000
PlausibleAmount(content) ==
    \E val \in {ReSub(<<NotSet(Digits \cup {"."})>>, <<>>, content, FALSE)} :
        ReMatch(AmountPattern, val, FALSE).ok /\ NumLess(PlausibleAbove, Float(val))

\* The scan "for c in reversed(row_cells)" of the row of cell number at: the
\* cells of the row by descending column_index (sort is stable, so among equal
\* columns the later cell comes first); it ends at the first plausible amount,
\* or by raising at a cell without content.
RowScan(table, at) ==
    LET cells == table.cells
        row == {k \in 1..Len(cells) : cells[k].row_index = cells[at].row_index}
        Before(a, b) == \/ cells[a].column_index > cells[b].column_index
                        \/ cells[a].column_index = cells[b].column_index /\ a > b
    IN With({k \in row : cells[k].content = None \/ PlausibleAmount(cells[k].content)},
            LAMBDA stops :
                IF stops = {} THEN None
                ELSE With(CHOOSE x \in stops : \A y \in stops \ {x} : Before(x, y), LAMBDA c :
                         IF cells[c].content = None THEN Raised ELSE cells[c].content))

\* Of the outcomes <<k, outcome>> of the steps of a loop, the outcome of the
\* first step that ends the loop (an amount, or Raised); None when none does.
First(outcomes) ==
    With({o \in outcomes : o[2] # None}, LAMBDA ends :
        IF ends = {} THEN None ELSE (CHOOSE o \in ends : \A u \in ends : o[1] <= u[1])[2])

\* One table of strategy A: its header log, then "for cell in table.cells".
TableScan(table) ==
    LET cells == table.cells
        headerRaises == /\ table.row_count > 0
                        /\ \E k \in 1..Len(cells) :
                              cells[k].row_index = 0 /\ cells[k].content = None
    IN IF headerRaises THEN Raised
       ELSE First({<<k, IF KeywordCell(cells[k]) THEN RowScan(table, k) ELSE None>> :
                      k \in 1..Len(cells)})

\* Strategy A: the first table that yields an amount (or raises) decides.
TableStrategy(tables) == First({<<t, TableScan(tables[t])>> : t \in 1..Len(tables)})

\* r"(?:taxable\s+income|gross\s+salary|net\s+salary|amount\s+paid)[\s\S]{0,300}?(\d[\d,]+(?:\.\d{1,2})?)"
bulldozer_pattern ==
    <<Alt(<<<<Lit(<<"t","a","x","a","b","l","e">>), Ws1, Lit(<<"i","n","c","o","m","e">>)>>, <<Lit(<<"g","r","o","s","s">>), Ws1, Lit(<<"s","a","l","a","r","y">>)>>,
            <<Lit(<<"n","e","t">>), Ws1, Lit(<<"s","a","l","a","r","y">>)>>, <<Lit(<<"a","m","o","u","n","t">>), Ws1, Lit(<<"p","a","i","d">>)>>>>),
      Lazy(<<AnyChar>>, 0, 300),
      Grp(1, <<D, Rep(<<Set(Digits \cup {","})>>, 1, Inf), Opt(<<Lit(<<".">>), Dn(1, 2)>>)>>)>>

\* Strategy B
RegexStrategy(content) ==
    With(ReSearch(bulldozer_pattern, content, TRUE), LAMBDA match :
        IF match.ok THEN Group(match, content, 1) ELSE None)

\* r"\b\d{1,3}(?:,\d{2,3})*(?:\.\d{2})?\b"
CurrencyPattern ==
    <<WordB, Dn(1, 3), Rep(<<Lit(<<",">>), Dn(2, 3)>>, 0, Inf), Opt(<<Lit(<<".">>), Dn(2, 2)>>), WordB>>

\* clean_val = float(re.sub(r"[^\d\.]", "", num_str))
CleanVal(num_str) == Float(ReSub(<<NotSet(Digits \cup {"."})>>, <<>>, num_str, FALSE))

\* The band of "if 100000 < clean_val < 100000000".
BandAbove == Float(<<"1","0","0","0","0","0">>)

BandBelow == Float(<<"1","0","0","0","0","0","0","0","0">>)

\* Strategy C: the largest amount of the band; the stable descending sort keeps
\* the first of equal amounts in front.
MaxNumberStrategy(content) ==
    With(ReFindAll(CurrencyPattern, content, FALSE), LAMBDA all_numbers :
      With([k \in 1..Len(all_numbers) |-> CleanVal(all_numbers[k])], LAMBDA clean_val :
        With({k \in 1..Len(all_numbers) :
                 NumLess(BandAbove, clean_val[k]) /\ NumLess(clean_val[k], BandBelow)},
             LAMBDA candidates :
                 IF candidates = {} THEN None
                 ELSE all_numbers[CHOOSE x \in candidates :
                          /\ \A y \in candidates : ~NumLess(clean_val[x], clean_val[y])
                          /\ \A y \in candidates :
                                 y < x => NumLess(clean_val[y], clean_val[x])])))

\* The strategies with the regex in front of the tables.
Form16IncomeRegexFirst(result, content) ==
    With(RegexStrategy(content), LAMBDA b :
        IF Truthy(b) THEN [gross |-> b, ran |-> <<"regex">>]
        ELSE With(IF Len(result.tables) > 0 THEN TableStrategy(result.tables) ELSE None,
                  LAMBDA a :
                      IF a = Raised THEN [gross |-> Raised, ran |-> <<"regex", "table">>]
                      ELSE IF Truthy(a) THEN [gross |-> a, ran |-> <<"regex", "table">>]
                      ELSE [gross |-> MaxNumberStrategy(content),
                            ran |-> <<"regex", "table", "max_number">>]))

\* Step 3 of process_form16: gross is the amount, ran the strategies entered
\* (the DEBUG lines "Scanning ... tables", "Tables failed. Trying Bulldozer
\* Regex", "All logic failed. Trying Max Number Heuristic"), in order.
Form16Income(result, content) ==
    LET ranA == IF Len(result.tables) > 0 THEN <<"table">> ELSE <<>>
    IN With(IF Len(result.tables) > 0 THEN TableStrategy(result.tables) ELSE None, LAMBDA a :
         IF a = Raised THEN [gross |-> Raised, ran |-> ranA]
         ELSE IF Truthy(a) THEN [gross |-> a, ran |-> ranA]
         ELSE With(RegexStrategy(content), LAMBDA b :
                IF Truthy(b) THEN [gross |-> b, ran |-> ranA \o <<"regex">>]
                ELSE [gross |-> MaxNumberStrategy(content),
                      ran |-> ranA \o <<"regex", "max_number">>]))

\* r"(?:Net\s*tax\s*payable|Total\s*Tax\s*Payable)[\s\S]{0,100}?(\d[\d,]*\.\d{2})"
TaxPayablePattern ==
    <<Alt(<<<<Lit(<<"N","e","t">>), Ws0, Lit(<<"t","a","x">>), Ws0, Lit(<<"p","a","y","a","b","l","e">>)>>,
            <<Lit(<<"T","o","t","a","l">>), Ws0, Lit(<<"T","a","x">>), Ws0, Lit(<<"P","a","y","a","b","l","e">>)>>>>),
      Lazy(<<AnyChar>>, 0, 100),
      Grp(1, <<D, Rep(<<Set(Digits \cup {","})>>, 0, Inf), Lit(<<".">>), Dn(2, 2)>>)>>

TaxPayable(content) ==
    With(ReSearch(TaxPayablePattern, content, TRUE), LAMBDA tax_match :
        IF tax_match.ok THEN Group(tax_match, content, 1) ELSE None)

\* What a processor call comes to: the response it returns, or an exception.
Returned(r) == [raised |-> FALSE, response |-> r]

Throws == [raised |-> TRUE, response |-> IdentityResponse]

process_form16(result) ==
    LET content == IF Truthy(result.content) THEN result.content ELSE <<>>
    IN With(Form16Employer(AllLines(result)), LAMBDA employer :
         With(Form16Income(result, content).gross, LAMBDA gross :
           With((IF ~Truthy(gross) THEN <<<<"I","n","c","o","m","e"," ","i","n","f","o"," ","n","o","t"," ","f","o","u","n","d">>>> ELSE <<>>)
                \o (IF ~Truthy(employer) THEN <<<<"E","m","p","l","o","y","e","r"," ","N","a","m","e"," ","n","o","t"," ","f","o","u","n","d">>>> ELSE <<>>),
                LAMBDA warnings :
                  IF gross = Raised THEN Throws
                  ELSE Returned([IdentityResponse EXCEPT
                         !.document_type = <<"F","O","R","M","_","1","6">>,
                         !.employer_name = employer,
                         !.assessment_year = AssessmentYear(content),
                         !.gross_income = gross,
                         !.tax_paid = TaxPayable(content),
                         !.confidence_score = 90,
                         !.validation_status =
                             IF warnings = <<>> THEN <<"V","A","L","I","D">> ELSE <<"R","E","V","I","E","W","_","N","E","E","D","E","D">>,
                         !.warnings = warnings]))))

\* r"Gross\s*Total\s*Income[\s\S]*?(\d{1,3}(?:,\d{2,3})*)"
ItrIncomePattern ==
    <<Lit(<<"G","r","o","s","s">>), Ws0, Lit(<<"T","o","t","a","l">>), Ws0, Lit(<<"I","n","c","o","m","e">>), Lazy(<<AnyChar>>, 0, Inf),
      Grp(1, <<Dn(1, 3), Rep(<<Lit(<<",">>), Dn(2, 3)>>, 0, Inf)>>)>>

\* r"(?:Total\s*Tax\s*Payable|Refund)\s*[\s\S]*?(\d{1,3}(?:,\d{2,3})*)"
ItrTaxPattern ==
    <<Alt(<<<<Lit(<<"T","o","t","a","l">>), Ws0, Lit(<<"T","a","x">>), Ws0, Lit(<<"P","a","y","a","b","l","e">>)>>, <<Lit(<<"R","e","f","u","n","d">>)>>>>),
      Ws0, Lazy(<<AnyChar>>, 0, Inf),
      Grp(1, <<Dn(1, 3), Rep(<<Lit(<<",">>), Dn(2, 3)>>, 0, Inf)>>)>>

\* r"[A-Z]{5}[0-9]{4}[A-Z]{1}"
PanPattern == <<Rep(<<Set(UpperSet)>>, 5, 5), Dn(4, 4), Rep(<<Set(UpperSet)>>, 1, 1)>>

process_itrv(result) ==
    LET content == IF Truthy(result.content) THEN result.content ELSE <<>>
    IN With(ReSearch(ItrIncomePattern, content, TRUE), LAMBDA income :
         With(ReSearch(ItrTaxPattern, content, TRUE), LAMBDA tax :
           With(ReSearch(PanPattern, content, FALSE), LAMBDA pan :
             Returned([IdentityResponse EXCEPT
                 !.document_type = <<"I","T","R","-","V">>,
                 !.id_number = IF pan.ok THEN Group0(pan, content) ELSE None,
                 !.assessment_year = AssessmentYear(content),
                 !.gross_income = IF income.ok THEN Group(income, content, 1) ELSE None,
                 !.tax_paid = IF tax.ok THEN Group(tax, content, 1) ELSE None,
                 !.confidence_score = 90,
                 !.validation_status = <<"V","A","L","I","D">>,
                 !.warnings = <<>>]))))

\* ------------------------------------------------------------------------
\* ID processors
\* ------------------------------------------------------------------------

\* f"{f} {l}".strip() for the FirstName and LastName of fields: the value of a
\* field that is there, "" for one that is not; a value None formats as "None".
FullName(fields) ==
    LET f == IF fields.FirstName # Missing THEN Str(fields.FirstName) ELSE <<>>
        l == IF fields.LastName # Missing THEN Str(fields.LastName) ELSE <<>>
    IN Strip(f \o <<" ">> \o l)

\* One pass of the loop "for doc in result.documents" of process_aadhaar.
MergeDoc(before, doc) ==
    With(before, LAMBDA merged :
    LET fields == doc.fields
    IN [id |-> IF fields.DocumentNumber # Missing /\ ~Truthy(merged.id)
               THEN fields.DocumentNumber ELSE merged.id,
        name |-> IF ~Truthy(merged.name) THEN FullName(fields) ELSE merged.name,
        address |-> IF fields.Address # Missing /\ ~Truthy(merged.address)
                    THEN fields.Address ELSE merged.address,
        dob |-> IF fields.DateOfBirth # Missing /\ ~Truthy(merged.dob)
                THEN Str(fields.DateOfBirth) ELSE merged.dob,
        conf |-> Append(merged.conf, doc.confidence)])

\* The loop over the first k documents.
RECURSIVE MergeDocs(_, _)
MergeDocs(documents, k) ==
    IF k = 0 THEN [id |-> None, name |-> None, dob |-> None, address |-> None, conf |-> <<>>]
    ELSE MergeDoc(MergeDocs(documents, k - 1), documents[k])

\* The dictionary merged after the loop.
Merged(result) == MergeDocs(result.documents, Len(result.documents))

\* r"(Name|Father's Name)[:\-\s]*"
NameNoisePattern ==
    <<Grp(1, <<Alt(<<<<Lit(<<"N","a","m","e">>)>>, <<Lit(<<"F","a","t","h","e","r","'","s"," ","N","a","m","e">>)>>>>)>>),
      Rep(<<Set({":", "-"} \cup SpaceSet)>>, 0, Inf)>>

\* The length test of process_aadhaar.
AadhaarLengthOk(id) == Len(RemoveSpaces(id)) = 12

process_aadhaar(result) ==
    With(Merged(result), LAMBDA merged :
      With(extract_address_fallback(result.content), LAMBDA addr :
        With(extract_gender_fallback(result.content), LAMBDA gender :
          LET refined == refine_name_using_anchor(result, merged.name)
              name == IF Truthy(merged.name)
                      THEN Strip(ReSub(NameNoisePattern, <<>>, refined, TRUE))
                      ELSE merged.name
              address == IF ~Truthy(merged.address) /\ Truthy(addr)
                         THEN addr ELSE merged.address
              warnings == IF Truthy(merged.id) /\ ~AadhaarLengthOk(merged.id)
                          THEN <<<<"I","n","v","a","l","i","d"," ","A","a","d","h","a","a","r"," ","L","e","n","g","t","h">>>> ELSE <<>>
          IN IF gender = Raised THEN Throws
             ELSE Returned([IdentityResponse EXCEPT
                      !.document_type = <<"A","A","D","H","A","A","R">>,
                      !.id_number = merged.id,
                      !.full_name = name,
                      !.gender = gender,
                      !.date_of_birth = merged.dob,
                      !.address = address,
                      !.confidence_score = 80,
                      !.validation_status =
                          IF warnings = <<>> THEN <<"V","A","L","I","D">> ELSE <<"R","E","V","I","E","W","_","N","E","E","D","E","D">>,
                      !.warnings = warnings]))))

process_pan(result) ==
    LET doc == result.documents[1]
        fields == doc.fields
    IN IF Len(result.documents) = 0
       THEN Returned([IdentityResponse EXCEPT
                !.document_type = <<"U","N","K","N","O","W","N">>,
                !.confidence_score = 0,
                !.validation_status = <<"I","N","V","A","L","I","D">>])
       ELSE With(extract_gender_fallback(result.content), LAMBDA gender :
            IF gender = Raised THEN Throws
            ELSE Returned([IdentityResponse EXCEPT
                !.document_type = <<"P","A","N","_","C","A","R","D">>,
                !.id_number = IF fields.DocumentNumber # Missing
                              THEN fields.DocumentNumber ELSE None,
                !.full_name = FullName(fields),
                !.gender = gender,
                !.date_of_birth = IF fields.DateOfBirth # Missing
                                  THEN Str(fields.DateOfBirth) ELSE None,
                !.confidence_score = doc.confidence,
                !.validation_status = <<"V","A","L","I","D">>,
                !.warnings = <<>>]))

process_cheque(result) ==
    LET content == result.content
    IN With(extract_ifsc(content), LAMBDA ifsc :
         With(extract_account_number(content), LAMBDA acc :
           IF ifsc = Raised \/ acc = Raised THEN Throws
           ELSE Returned([IdentityResponse EXCEPT
                    !.document_type = <<"C","H","E","Q","U","E">>,
                    !.id_number = acc,
                    !.ifsc_code = ifsc,
                    !.confidence_score = 85,
                    !.validation_status = <<"V","A","L","I","D">>,
                    !.warnings = <<>>])))

\* ------------------------------------------------------------------------
\* Router
\* ------------------------------------------------------------------------

\* class DocType
DocType == {"auto", "pan", "aadhaar", "cheque", "form16", "itrv"}

\* The chain "if strategy == DocType.AUTO: ..." of extract_identity.
Classify(result) ==
    With(Upper(IF Truthy(result.content) THEN result.content ELSE <<>>),
         LAMBDA content_upper :
             IF Contains(content_upper, <<"F","O","R","M"," ","1","6">>) THEN "form16"
             ELSE IF Contains(content_upper, <<"I","T","R","-","V">>) THEN "itrv"
             ELSE IF Contains(content_upper, <<"P","A","Y"," ">>) /\ Contains(content_upper, <<"R","U","P","E","E","S">>)
                  THEN "cheque"
             ELSE IF Contains(content_upper, <<"I","N","C","O","M","E"," ","T","A","X"," ","D","E","P","A","R","T","M","E","N","T">>) THEN "pan"
             ELSE "aadhaar")

\* ------------------------------------------------------------------------
\* State: one request to extract_identity
\* ------------------------------------------------------------------------

VARIABLES
    doc_type,   \* the declared type of the request
    result,     \* the AnalyzeResult of the OCR call: content, pages, documents, tables
    pc,         \* "start", "dispatch", then "done" (a response) or "raised"
    strategy,   \* the type the router settled on
    response,   \* the IdentityResponse returned (the default one until then)
    ran,        \* the income strategies process_form16 entered, in order
    refined     \* the local "refined" of process_aadhaar (None until assigned)

vars == <<doc_type, result, pc, strategy, response, ran, refined>>

\* Lines 276-285: the declared type, or the classifier's under AUTO.
Route ==
    /\ pc = "start"
    /\ strategy' = IF doc_type = "auto" THEN Classify(result) ELSE doc_type
    /\ pc' = "dispatch"
    /\ UNCHANGED <<doc_type, result, response, ran, refined>>

\* The end of a processor call: its response, or the exception it raised.
Return(call) ==
    \E r \in {call} :
        /\ response' = r.response
        /\ pc' = IF r.raised THEN "raised" ELSE "done"
        /\ UNCHANGED <<doc_type, result, strategy>>

ProcessAadhaar ==
    /\ pc = "dispatch" /\ strategy = "aadhaar"
    /\ Return(process_aadhaar(result))
    /\ refined' = With(Merged(result).name, LAMBDA name :
                      IF Truthy(name) THEN refine_name_using_anchor(result, name) ELSE refined)
    /\ UNCHANGED ran

ProcessPan ==
    /\ pc = "dispatch" /\ strategy = "pan"
    /\ Return(process_pan(result))
    /\ UNCHANGED <<ran, refined>>

ProcessCheque ==
    /\ pc = "dispatch" /\ strategy = "cheque"
    /\ Return(process_cheque(result))
    /\ UNCHANGED <<ran, refined>>

ProcessForm16 ==
    /\ pc = "dispatch" /\ strategy = "form16"
    /\ Return(process_form16(result))
    /\ ran' = Form16Income(result, IF Truthy(result.content) THEN result.content ELSE <<>>).ran
    /\ UNCHANGED refined

ProcessItrv ==
    /\ pc = "dispatch" /\ strategy = "itrv"
    /\ Return(process_itrv(result))
    /\ UNCHANGED <<ran, refined>>

\* ------------------------------------------------------------------------
\* Requests
\* ------------------------------------------------------------------------

\* The sequences of at most n elements of pool.
RECURSIVE SeqsUpTo(_, _)
SeqsUpTo(pool, n) ==
    IF n = 0 THEN {<<>>}
    ELSE With(SeqsUpTo(pool, n - 1), LAMBDA shorter :
             shorter \cup {Append(q, x) : q \in shorter, x \in pool})

MaxFragments == 2

MaxDocuments == 2

MaxLines == 3

MaxChequeParts == 3

MaxCells == 2

\* Whole texts made of the fragments of pool.
Texts(pool, n) == {Concat(q) : q \in SeqsUpTo(pool, n)}

\* The markers the classifier looks for, and text around them.
MarkerFragments ==
    {<<"F","O","R","M"," ","1","6">>, <<"F","o","r","m"," ","N","o","."," ","1","6">>, <<"I","T","R","-","V">>, <<"I","n","d","i","a","n"," ","I","n","c","o","m","e"," ","T","a","x"," ","R","e","t","u","r","n">>,
     <<"P","a","y"," ">>, <<"P","A","Y">>, <<"R","u","p","e","e","s">>, <<"I","F","S","C">>, <<"A","/","c"," ","N","o">>, <<"S","B","I","N","0","0","0","1","2","3","4">>,
     <<"I","N","C","O","M","E"," ","T","A","X"," ","D","E","P","A","R","T","M","E","N","T">>, <<"P","e","r","m","a","n","e","n","t"," ","A","c","c","o","u","n","t">>, <<"U","n","i","q","u","e"," ","I","d","e","n","t","i","f","i","c","a","t","i","o","n">>, <<"A","a","d","h","a","a","r">>,
     <<" ","o","f"," ","I","n","d","i","a","\n">>}

Fields(id, first, last, address, dob) ==
    [DocumentNumber |-> id, FirstName |-> first, LastName |-> last,
     Address |-> address, DateOfBirth |-> dob]

\* Document instances: fields that are missing, that hold no value (None, ""),
\* and that hold one.
DocumentPool ==
    {[fields |-> Fields(<<"1","2","3","4"," ","5","6","7","8"," ","9","0","1","2">>, <<"J","o","h","n">>, Missing, Missing, <<"1","9","9","0","-","0","1","-","0","1">>), confidence |-> 95],
     [fields |-> Fields(<<"1","2","3","4"," ","5","6","7","8"," ","9","0","1">>, Missing, <<"S","m","i","t","h">>, <<"1","2"," ","M","G"," ","R","o","a","d">>, Missing), confidence |-> 80],
     [fields |-> Fields(<<"1","2","3","4"," ","5","6","7","8"," ","9","O","1","2">>, <<"R","a","v","i">>, <<"K","u","m","a","r">>, <<"4"," ","H","i","l","l"," ","S","t">>, <<"1","9","8","5","-","0","5","-","0","5">>), confidence |-> 70],
     [fields |-> Fields(<<"A","B","C","D","E","1","2","3","4","F">>, <<"A","s","h","a">>, Missing, Missing, <<"1","9","7","0","-","0","7","-","0","7">>), confidence |-> 99],
     [fields |-> Fields(<<"A","B","C","D","E","1","2","3","4">>, Missing, Missing, Missing, Missing), confidence |-> 60],
     [fields |-> Fields(None, None, Missing, <<>>, None), confidence |-> 50],
     [fields |-> Fields(Missing, Missing, Missing, Missing, Missing), confidence |-> 40]}

IdText == <<"G","O","V","E","R","N","M","E","N","T"," ","O","F"," ","I","N","D","I","A","\n","J","o","h","n"," ","S","m","i","t","h","\n","D","O","B",":"," ","0","1","/","0","1","/","1","9","9","0","\n","M","a","l","e","\n","A","d","d","r","e","s","s",":"," ","1","2"," ","M","G"," ","R","o","a","d"," ","P","u","n","e"," ","4","1","1","0","0","1">>

LinePool == {<<"D","O","B",":"," ","0","1","/","0","1","/","1","9","9","0">>, <<"Y","e","a","r"," ","o","f"," ","B","i","r","t","h",":"," ","1","9","9","0">>, <<"J","o","h","n"," ","S","m","i","t","h">>, <<"N","a","m","e",":"," ","J","o","h","n"," ","K">>, <<"R","a","v","i"," ","K","u","m","a","r">>}

JohnDoc == [fields |-> Fields(<<"1","2","3","4"," ","5","6","7","8"," ","9","0","1","2">>, <<"J","o","h","n">>, Missing, Missing, Missing), confidence |-> 95]

\* The parts of a cheque's text: labels, digit runs of 9 to 19 digits, an
\* IFSC code, and separators.
ChequeFragments ==
    {<<"A","/","c"," ","N","o",":"," ">>, <<"A","c","c","o","u","n","t"," ","N","u","m","b","e","r">>, <<"1","2","3","4","5","6","7","8","9">>, <<"9","8","7","6","5","4","3","2","1","0","9">>, <<"1","2","3","4","5","6","7","8","9","0","1","2","3">>,
     <<"5","5","5","0","0","0","1","1","1","2","2","2","3">>, <<"1","2","3","4","5","6","7","8","9","0","1","2","3","4","5","6","7","8">>, <<"1","2","3","4","5","6","7","8","9","0","1","2","3","4","5","6","7","8","9">>,
     <<"S","B","I","N","0","0","0","1","2","3","4">>, <<" ","P","a","y"," ","R","u","p","e","e","s"," ">>, <<"\n">>}

\* Table cells: a row label, a label with its amount in the same cell, a
\* plausible amount, a serial number.
CellContents == {<<"G","r","o","s","s"," ","S","a","l","a","r","y">>, <<"N","e","t"," ","S","a","l","a","r","y","\n","8",",","0","0",",","0","0","0">>, <<"6",",","0","0",",","0","0","0",".","0","0">>, <<"4",",","5","0","0">>}

CellPool ==
    {[row_index |-> r, column_index |-> c, content |-> t] :
        r \in {0, 1}, c \in {0, 1}, t \in CellContents}

\* The tables of at most n cells, no two at the same row and column.
Tables(n) ==
    {[row_count |-> 2, cells |-> q] : q \in
        {q \in SeqsUpTo(CellPool, n) :
            \A a, b \in 1..Len(q) :
                a # b => <<q[a].row_index, q[a].column_index>> # <<q[b].row_index, q[b].column_index>>}}

\* Two tables, for the order among tables.
TablePairs == {<<a, b>> : a, b \in Tables(1)}

IncomeTexts ==
    {<<>>, <<"F","o","r","m"," ","1","6","\n","G","r","o","s","s"," "," ","S","a","l","a","r","y"," ","R","s","."," ","5",",","5","0",",","0","0","0",".","0","0","\n","N","e","t"," ","t","a","x"," ","p","a","y","a","b","l","e"," ","1","2",",","5","0","0",".","0","0">>,
     <<"A","s","s","e","s","s","m","e","n","t"," ","Y","e","a","r",":"," ","2","0","2","3","-","2","4","\n","P","a","i","d"," ","2",",","5","0",",","0","0","0"," ","a","n","d"," ","9",",","7","5",",","0","0","0",".","0","0"," ","a","n","d"," ","9",",","7","5",",","0","0","0">>}

EmployerPages == <<<<<<"N","a","m","e"," ","a","n","d"," ","a","d","d","r","e","s","s"," ","o","f"," ","t","h","e"," ","E","m","p","l","o","y","e","r">>, <<"E","m","p","l","o","y","e","e"," ","d","e","t","a","i","l","s">>, <<"A","C","M","E"," ","S","O","F","T">>>>,
                   <<<<"P","R","I","V","A","T","E"," ","L","I","M","I","T","E","D">>>>>>

NoResult == [content |-> <<>>, pages |-> <<>>, documents |-> <<>>, tables |-> <<>>]

Begin ==
    /\ pc = "start"
    /\ strategy = "auto"
    /\ response = IdentityResponse
    /\ ran = <<>>
    /\ refined = None

\* Requests of type AUTO, over texts with and without markers.
InitClassify ==
    /\ doc_type = "auto"
    /\ \E text \in Texts(MarkerFragments, MaxFragments) \cup {None} :
       \E docs \in {<<>>, <<JohnDoc>>} :
          result = [NoResult EXCEPT !.content = text, !.documents = docs]
    /\ Begin

\* Identity documents: the document instances vary.
InitDocuments ==
    /\ doc_type \in {"pan", "aadhaar"}
    /\ \E text \in {IdText, <<>>, None} :
       \E docs \in SeqsUpTo(DocumentPool, MaxDocuments) :
          result = [NoResult EXCEPT !.content = text, !.documents = docs]
    /\ Begin

\* Aadhaar cards: the lines vary.
InitLines ==
    /\ doc_type = "aadhaar"
    /\ \E lines \in SeqsUpTo(LinePool, MaxLines) :
          result = [NoResult EXCEPT !.content = IdText, !.pages = <<lines>>,
                                    !.documents = <<JohnDoc>>]
    /\ Begin

\* Cheques: the text varies.
InitCheque ==
    /\ doc_type = "cheque"
    /\ \E text \in Texts(ChequeFragments, MaxChequeParts) :
          result = [NoResult EXCEPT !.content = text]
    /\ Begin

\* Income documents: the tables and the text vary.
InitIncome ==
    /\ doc_type = "form16"
    /\ \E text \in IncomeTexts \cup {None} :
       \E tables \in {<<t>> : t \in Tables(MaxCells)} \cup TablePairs \cup {<<>>} :
          result = [NoResult EXCEPT !.content = text, !.tables = tables]
    /\ Begin

Init ==
    \/ InitClassify
    \/ InitDocuments
    \/ InitLines
    \/ /\ doc_type \in {"cheque", "form16", "itrv"}
       /\ \E text \in IncomeTexts \cup {None, <<"P","a","y"," ","R","u","p","e","e","s","\n","A","/","c"," ","N","o"," ","1","2","3","4","5","6","7","8","9","0","1","2","\n","S","B","I","N","0","0","0","1","2","3","4">>,
                                        <<"P","a","y"," ","R","u","p","e","e","s","\n","Z","Z","Z","Z","0","A","B","C","1","2","3">>} :
             result = [NoResult EXCEPT !.content = text, !.pages = EmployerPages]
       /\ Begin

Next ==
    \/ Route
    \/ ProcessAadhaar
    \/ ProcessPan
    \/ ProcessCheque
    \/ ProcessForm16
    \/ ProcessItrv

\* Every kind of request.
Spec == Init /\ [][Next]_vars

NextCheque == Route \/ ProcessCheque

\* Cheque requests.
SpecCheque == InitCheque /\ [][NextCheque]_vars

NextIncome == Route \/ ProcessForm16

\* Form 16 requests.
SpecIncome == InitIncome /\ [][NextIncome]_vars

\* ------------------------------------------------------------------------
\* The statements of the specification, over the states of a request
\* ------------------------------------------------------------------------

\* Whether the list holds x.
Has(list, x) == \E k \in 1..Len(list) : list[k] = x

\* A value that is absent or empty counts as absent.
Norm(v) == IF Truthy(v) THEN v ELSE None

\* The upper-cased fullText of the request ("" when absent).
UpperText == Upper(IF Truthy(result.content) THEN result.content ELSE <<>>)

\* C1: every request ends with a record: no extractor ever ends in a raised
\* error, whatever the AnalysisResult (fullText absent included) and the
\* declared type.
C1_NeverRaises == pc # "raised"

\* The markers and the cheque signal of the specification's classifier.
Form16Marker(u) == Contains(u, <<"F","O","R","M"," ","1","6">>) \/ Contains(u, <<"F","O","R","M"," ","N","O","."," ","1","6">>)

ItrMarker(u) == Contains(u, <<"I","T","R","-","V">>) \/ Contains(u, <<"I","N","D","I","A","N"," ","I","N","C","O","M","E"," ","T","A","X"," ","R","E","T","U","R","N">>)

BankingKeyword(u) ==
    \/ Contains(u, <<"P","A","Y">>)
    \/ Contains(u, <<"R","U","P","E","E","S">>)
    \/ Contains(u, <<"I","F","S","C">>)
    \/ Contains(u, <<"A","/","C"," ","N","O">>)

IfscShaped(u) == ReSearch(IfscPattern, u, FALSE).ok

ChequeSignal(u) == BankingKeyword(u) /\ IfscShaped(u)

PanMarker(u) == Contains(u, <<"I","N","C","O","M","E"," ","T","A","X"," ","D","E","P","A","R","T","M","E","N","T">>) \/ Contains(u, <<"P","E","R","M","A","N","E","N","T"," ","A","C","C","O","U","N","T">>)

AadhaarMarker(u) == Contains(u, <<"U","N","I","Q","U","E"," ","I","D","E","N","T","I","F","I","C","A","T","I","O","N">>) \/ Contains(u, <<"A","A","D","H","A","A","R">>)

\* C2: under AUTO the classifier yields CHEQUE only for a text with a banking
\* keyword and an IFSC-shaped token, and it does yield CHEQUE for such a text
\* that has no Form 16 and no ITR marker.
C2_ChequeSignal ==
    (doc_type = "auto" /\ pc # "start") =>
        \E u \in {UpperText} :
            /\ strategy = "cheque" => ChequeSignal(u)
            /\ (ChequeSignal(u) /\ ~Form16Marker(u) /\ ~ItrMarker(u)) => strategy = "cheque"

\* C3: under AUTO the selected type is that of the first rule that matches, in
\* the order Form 16 marker, ITR marker, cheque signal, PAN marker, Aadhaar
\* marker, each marker variant counting, else the residual class (PAN or
\* AADHAAR); it is never AUTO.
C3_RuleOrder ==
    (doc_type = "auto" /\ pc # "start") =>
        \E u \in {UpperText} :
            /\ strategy # "auto"
            /\ IF Form16Marker(u) THEN strategy = "form16"
               ELSE IF ItrMarker(u) THEN strategy = "itrv"
               ELSE IF ChequeSignal(u) THEN strategy = "cheque"
               ELSE IF PanMarker(u) THEN strategy = "pan"
               ELSE IF AadhaarMarker(u) THEN strategy = "aadhaar"
               ELSE strategy \in {"pan", "aadhaar"}

\* "5 letters, 4 digits, 1 letter"
PanShaped(id) ==
    /\ Len(id) = 10
    /\ \A k \in {1, 2, 3, 4, 5, 10} : id[k] \in UpperSet \cup LowerSet
    /\ \A k \in 6..9 : id[k] \in Digits

\* C4: a PAN record over a non-empty documents sequence is VALID only if the id
\* of the first instance has the PAN shape; an id of another shape gives the
\* warning Invalid PAN Pattern, an absent id the warning PAN Missing, and both
\* give INVALID.
C4_PanValidation ==
    (pc = "done" /\ strategy = "pan" /\ Len(result.documents) > 0) =>
        \E id \in {response.id_number} :
            IF ~Truthy(id)
            THEN Has(response.warnings, <<"P","A","N"," ","M","i","s","s","i","n","g">>) /\ response.validation_status = <<"I","N","V","A","L","I","D">>
            ELSE IF ~PanShaped(id)
            THEN /\ Has(response.warnings, <<"I","n","v","a","l","i","d"," ","P","A","N"," ","P","a","t","t","e","r","n">>)
                 /\ response.validation_status = <<"I","N","V","A","L","I","D">>
            ELSE TRUE

\* Whether the instance carries a non-empty value of field f.
Carries(doc, f) == doc.fields[f] # Missing /\ Truthy(doc.fields[f])

\* The value of f of the earliest instance that carries one; None when none does.
FirstWins(docs, f) ==
    With({k \in 1..Len(docs) : Carries(docs[k], f)}, LAMBDA ks :
        IF ks = {} THEN None ELSE docs[Min(ks)].fields[f])

\* The name an instance carries: its first and last name, those it carries.
InstanceName(doc) ==
    Strip((IF Carries(doc, "FirstName") THEN doc.fields.FirstName ELSE <<>>)
          \o <<" ">> \o (IF Carries(doc, "LastName") THEN doc.fields.LastName ELSE <<>>))

FirstWinsName(docs) ==
    With({k \in 1..Len(docs) : InstanceName(docs[k]) # <<>>}, LAMBDA ks :
        IF ks = {} THEN None ELSE InstanceName(docs[Min(ks)]))

\* C5: the AADHAAR merge is first-wins: id number, name, address and date of
\* birth are each the value of the earliest instance that carries a non-empty
\* one, and absent when no instance carries one.
C5_FirstWinsMerge ==
    (pc = "done" /\ strategy = "aadhaar") =>
        \E docs \in {result.documents}, merged \in {Merged(result)} :
            /\ Norm(response.id_number) = FirstWins(docs, "DocumentNumber")
            /\ Norm(response.date_of_birth) = FirstWins(docs, "DateOfBirth")
            /\ Norm(merged.name) = FirstWinsName(docs)
            /\ Norm(merged.address) = FirstWins(docs, "Address")

\* Whether the id without its spaces is exactly 12 digits.
TwelveDigits(id) ==
    \E d \in {RemoveSpaces(id)} : Len(d) = 12 /\ \A k \in 1..Len(d) : d[k] \in Digits

\* C6: an AADHAAR record with an id number is VALID without the warning
\* Invalid Aadhaar Length when the id without spaces is exactly 12 digits, and
\* otherwise REVIEW_NEEDED with that warning; it is never INVALID.
C6_AadhaarLength ==
    (pc = "done" /\ strategy = "aadhaar" /\ Truthy(response.id_number)) =>
        /\ response.validation_status # <<"I","N","V","A","L","I","D">>
        /\ IF TwelveDigits(response.id_number)
           THEN /\ ~Has(response.warnings, <<"I","n","v","a","l","i","d"," ","A","a","d","h","a","a","r"," ","L","e","n","g","t","h">>)
                /\ response.validation_status = <<"V","A","L","I","D">>
           ELSE /\ Has(response.warnings, <<"I","n","v","a","l","i","d"," ","A","a","d","h","a","a","r"," ","L","e","n","g","t","h">>)
                /\ response.validation_status = <<"R","E","V","I","E","W","_","N","E","E","D","E","D">>

\* The first IFSC-shaped token of the text; None when there is none.
FirstIfsc(text) ==
    With(ReSearch(IfscPattern, text, FALSE), LAMBDA m :
        IF m.ok THEN Group0(m, text) ELSE None)

\* C7: the bankName of a CHEQUE record follows its IFSC: the mapped name for a
\* prefix of the table (SBIN: State Bank of India), Bank (prefix) for the
\* unmapped prefix ZZZZ, Unknown Bank without an IFSC; and ifscCode is the
\* first IFSC-shaped token of fullText.
C7_BankName ==
    (pc = "done" /\ strategy = "cheque") =>
        \E ifsc \in {FirstIfsc(result.content)} :
            /\ response.ifsc_code = ifsc
            /\ IF ifsc = None THEN response.bank_name = <<"U","n","k","n","o","w","n"," ","B","a","n","k">>
               ELSE IF SubSeq(ifsc, 1, 4) = <<"S","B","I","N">>
               THEN response.bank_name = <<"S","t","a","t","e"," ","B","a","n","k"," ","o","f"," ","I","n","d","i","a">>
               ELSE IF SubSeq(ifsc, 1, 4) = <<"Z","Z","Z","Z">> THEN response.bank_name = <<"B","a","n","k"," ","(","Z","Z","Z","Z",")">>
               ELSE Truthy(response.bank_name)

\* Whether a digit stands at position k of s.
IsDigitAt(s, k) == k >= 1 /\ k <= Len(s) /\ s[k] \in Digits

\* The maximal runs of digits of s, each as <<first, last>>.
DigitRuns(s) ==
    {<<a, Min({b \in a..Len(s) : ~IsDigitAt(s, b + 1)})>> :
        a \in {a \in 1..Len(s) : IsDigitAt(s, a) /\ ~IsDigitAt(s, a - 1)}}

RunLen(r) == r[2] - r[1] + 1

\* The maximal runs of 10 to 18 digits.
LongRuns(s) == {r \in DigitRuns(s) : RunLen(r) >= 10 /\ RunLen(r) <= 18}

\* The longest of the runs, and the first of the longest.
FirstLongest(runs) ==
    CHOOSE r \in runs :
        \A q \in runs : RunLen(q) < RunLen(r) \/ (RunLen(q) = RunLen(r) /\ r[1] <= q[1])

\* The text without its leading whitespace.
SkipSpaces(w) ==
    With({k \in 1..Len(w) : w[k] \notin SpaceSet}, LAMBDA keep :
        IF keep = {} THEN <<>> ELSE SubSeq(w, Min(keep), Len(w)))

\* The text without its first character, when that is one of cs.
DropOne(w, cs) == IF Len(w) > 0 /\ w[1] \in cs THEN Tail(w) ELSE w

\* The text, and the text without a leading "no" or "number".
AfterWord(w) ==
    {w} \cup {SubSeq(w, Len(word) + 1, Len(w)) :
                 word \in {word \in {<<"n","o">>, <<"n","u","m","b","e","r">>} : StartsAt(word, w, 1)}}

\* Whether the lower-cased w is all that stands between a label and its number:
\* spaces, "No" or "Number", a dot, spaces, a colon or dash, spaces, each optional.
Separates(w) ==
    \E rest \in AfterWord(SkipSpaces(w)) :
        SkipSpaces(DropOne(SkipSpaces(DropOne(rest, {"."})), {":", "-"})) = <<>>

\* The labeled numbers of s, each as <<a, run>>: a label (A/c, Account, Acc, in
\* any case) at a, and the run of at least 9 digits that it labels.
LabeledRuns(s) ==
    With(Lower(s), LAMBDA low :
        {ar \in (1..Len(s)) \X {r \in DigitRuns(s) : RunLen(r) >= 9} :
            \E label \in {<<"a","/","c">>, <<"a","c","c","o","u","n","t">>, <<"a","c","c">>} :
                /\ StartsAt(label, low, ar[1])
                /\ ar[1] + Len(label) <= ar[2][1]
                /\ Separates(SubSeq(low, ar[1] + Len(label), ar[2][1] - 1))})

\* The number of the first label: the digits of its run, 18 at most.
LabeledNumber(s, labeled) ==
    With((CHOOSE ar \in labeled : \A q \in labeled : ar[1] <= q[1])[2], LAMBDA r :
        SubSeq(s, r[1], IF RunLen(r) > 18 THEN r[1] + 17 ELSE r[2]))

TableAmounts(tables) ==
    UNION {With(tables[t].cells, LAMBDA cells :
               {cells[c].content :
                   c \in {c \in 1..Len(cells) :
                            /\ PlausibleAmount(cells[c].content)
                            /\ \E k \in 1..Len(cells) :
                                  /\ KeywordCell(cells[k])
                                  /\ cells[k].row_index = cells[c].row_index}}) :
           t \in 1..Len(tables)}

\* C9: the gross income of a Form 16 follows the priority table, regex,
\* magnitude: when a table row with a row-label keyword yields a plausible
\* amount, grossIncome is that cell's text and neither later strategy runs; a
\* strategy runs only if every earlier one produced nothing; and grossIncome is
\* absent only if all three produced nothing, with the warning and
\* REVIEW_NEEDED.
C9_StrategyPriority ==
    (pc = "done" /\ strategy = "form16") =>
        \E content \in {IF Truthy(result.content) THEN result.content ELSE <<>>} :
        \E amounts \in {TableAmounts(result.tables)} :
        \E b \in {RegexStrategy(content)}, c \in {MaxNumberStrategy(content)} :
            /\ amounts # {} =>
                  /\ response.gross_income \in amounts
                  /\ ~Has(ran, "regex") /\ ~Has(ran, "max_number")
            /\ Has(ran, "regex") => amounts = {}
            /\ Has(ran, "max_number") => amounts = {} /\ ~Truthy(b)
            /\ (amounts = {} /\ Truthy(b)) => response.gross_income = b
            /\ (amounts = {} /\ ~Truthy(b) /\ Truthy(c)) => response.gross_income = c
            /\ ~Truthy(response.gross_income) =>
                  /\ amounts = {} /\ ~Truthy(b) /\ ~Truthy(c)
                  /\ Has(response.warnings, <<"I","n","c","o","m","e"," ","i","n","f","o"," ","n","o","t"," ","f","o","u","n","d">>)
                  /\ response.validation_status = <<"R","E","V","I","E","W","_","N","E","E","D","E","D">>

\* A Form 16 whose table and whose text both hold an amount, the table's reported.
C9_Witness ==
    /\ pc = "done" /\ strategy = "form16"
    /\ \E content \in {IF Truthy(result.content) THEN result.content ELSE <<>>} :
          /\ TableAmounts(result.tables) # {}
          /\ Truthy(RegexStrategy(content))
          /\ response.gross_income # RegexStrategy(content)
          /\ response.gross_income \in TableAmounts(result.tables)
          /\ ran = <<"table">>

\* C10: the anchor refiner returns the line before the first line with a
\* birth-date marker when that marker is not on the first line and the line
\* before it contains the partial name in any case, and the partial name
\* otherwise: the last line is never used for a marker on the first line, and
\* no later marker is used.
C10_AnchorFirstMarker ==
    (pc = "done" /\ strategy = "aadhaar" /\ Truthy(Merged(result).name)) =>
        \E lines \in {AllLines(result)}, partial \in {Merged(result).name} :
        \E markers \in {{k \in 1..Len(lines) : HasBirthMarker(lines[k])}} :
            refined = IF /\ markers # {}
                         /\ Min(markers) > 1
                         /\ Contains(Lower(lines[Min(markers) - 1]), Lower(partial))
                      THEN lines[Min(markers) - 1]
                      ELSE partial

=============================================================================
